---- MODULE Spec2Model ----
(***************************************************************************)
(* Benchmark orchestration of playful-benchmarker.                         *)
(*                                                                         *)
(* Two components define a handleStartBenchmark handler:                   *)
(*   - components/benchmark/BenchmarkRunner.jsx: credential check,         *)
(*     impersonate -> fetch project -> read its body -> insert paused run  *)
(*     -> rpc start_paused_run, per scenario;                              *)
(*   - pages/StartBenchmark.jsx: its render evaluates the dependency array *)
(*     of useCallback, which names the unbound addBenchmarkResult, so the  *)
(*     render throws a ReferenceError and the page never offers its        *)
(*     handler.                                                            *)
(* The handler is an async function: it runs synchronously up to its       *)
(* first await and then resumes once per settled promise.  One action of   *)
(* the model is one such resumption: it consumes the reply of the call     *)
(* that was awaited, runs the code up to the next await and issues that    *)
(* call.  A throw inside the try block and the catch / finally blocks run  *)
(* in the same resumption.                                                 *)
(***************************************************************************)
EXTENDS Integers, Sequences, FiniteSets, TLC

(* ------------------------------ bounds --------------------------------- *)
NumScenarios == 2
MaxReviewers == 2
\* handleStartBenchmark is not invoked again, and userSecrets not delivered
\* anew, once the events so far number MaxEvents, an invocation counting for
\* four and a call or a reply for one
MaxEvents == 7
\* the first invocation is followed to MaxTrace calls and replies, a later
\* one to MaxEvents events in all
MaxTrace == 20

(* ------------------------------ data ----------------------------------- *)
Components == {"BenchmarkRunner", "StartBenchmark"}
ScenarioIds == 1..NumScenarios
\* import.meta.env.VITE_SYSTEM_VERSION: unset, or set
ViteSystemVersion == {"", "staging"}
\* useState(import.meta.env.VITE_SYSTEM_VERSION || "http://localhost:8000")
InitialSystemVersion(viteEnv) ==
  IF viteEnv # "" THEN viteEnv ELSE "http://localhost:8000"
\* the systemVersion prop of BenchmarkRunner
Versions == {"http://localhost:8000", "http://staging"}
Users == {"u1", "u2"}

\* the reviewers table: the rows whose scenario_id is s
ReviewerCount(s) == (s + MaxReviewers - 2) % (MaxReviewers + 1)
ReviewersOf(s) ==
  [j \in 1..ReviewerCount(s) |->
     [id |-> s * (MaxReviewers + 1) + j, scenario_id |-> s]]

\* the loaded scenario set: rows of benchmark_scenarios
scenarios ==
  {[id |-> s, name |-> s] : s \in ScenarioIds}

\* scenarios.find((s) => s.id === scenarioId)
FindScenario(scenarioId) == CHOOSE s \in scenarios : s.id = scenarioId

\* the secrets blobs a user_secrets row may hold
SecretBlobs ==
  {"{}", "{\"GPT_ENGINEER_TEST_TOKEN\":\"\"}",
   "{\"GPT_ENGINEER_TEST_TOKEN\":\"tok\"}", "not json"}

\* JSON.parse on those blobs: valid = FALSE is a SyntaxError
JSONparse(blob) ==
  CASE blob = "{}" -> [valid |-> TRUE, keys |-> {}, token |-> ""]
    [] blob = "{\"GPT_ENGINEER_TEST_TOKEN\":\"\"}" ->
         [valid |-> TRUE, keys |-> {"GPT_ENGINEER_TEST_TOKEN"}, token |-> ""]
    [] blob = "{\"GPT_ENGINEER_TEST_TOKEN\":\"tok\"}" ->
         [valid |-> TRUE, keys |-> {"GPT_ENGINEER_TEST_TOKEN"}, token |-> "tok"]
    [] OTHER -> [valid |-> FALSE, keys |-> {}, token |-> ""]

\* the userSecrets prop: not loaded (undefined), or the list of rows
SecretsValues ==
  {[present |-> FALSE, rows |-> <<>>], [present |-> TRUE, rows |-> <<>>]}
    \cup {[present |-> TRUE, rows |-> <<blob>>] : blob \in SecretBlobs}

\* StartBenchmark has no userSecrets
SecretsOf(c) ==
  IF c = "BenchmarkRunner" THEN SecretsValues
  ELSE {[present |-> FALSE, rows |-> <<>>]}

\* notification texts
MsgSelect == "Please select at least one scenario to run."
MsgNoSecrets == "No user secrets found. Please set up your GPT Engineer test token."
MsgNoToken == "GPT Engineer test token not found. Please set it up in your secrets."
MsgScenario == "Benchmark started for scenario"
MsgNotStarted == "Benchmark created but not started for scenario"
MsgAll == "All benchmarks started successfully!"
MsgFailure == "An error occurred while starting the benchmark. Please try again."

Toast(level, msg, b, k) == [level |-> level, msg |-> msg, batch |-> b, pos |-> k]

\* events of the call trace
Call(op, b, e, id) ==
  [kind |-> "call", op |-> op, batch |-> b, scenario |-> e.scenarioId,
   pos |-> e.pos, res |-> "", id |-> id]
Reply(op, b, e, res, id) ==
  [kind |-> "reply", op |-> op, batch |-> b, scenario |-> e.scenarioId,
   pos |-> e.pos, res |-> res, id |-> id]

NoLink == <<>>
\* projectData.link of the project-details response
LinkOf(projectId) == <<"link", projectId>>

VARIABLES
  component,          \* which component hosts the start button
  userSecrets,        \* the userSecrets prop
  session,            \* session.user.id
  systemVersion,
  isRunning,
  route,              \* "start": being rendered or mounted; "error": the render threw
  nclicks,            \* invocations of handleStartBenchmark so far
  exec,               \* per invocation: the closure and its position
  trace,              \* network / Gateway calls and their replies
  notifications,      \* toasts, in emission order
  runs,               \* rows of the runs table, as inserted
  results,            \* rows of the results table, as inserted
  aggResults,         \* RunResult page: the rows useRunResults returned
  loadedReviewers,    \* RunResult page: reviewer ids whose useReviewer query resolved
  scoreData,          \* RunResult page: the entries of the last render
  rendered            \* RunResult page: the page body has been rendered

aggVars == <<aggResults, loadedReviewers, scoreData, rendered>>
orchVars == <<component, userSecrets, session, systemVersion,
              isRunning, route, nclicks, exec, trace, notifications, runs, results>>
vars == <<component, userSecrets, session, systemVersion,
          isRunning, route, nclicks, exec, trace, notifications, runs, results,
          aggResults, loadedReviewers, scoreData, rendered>>

Idle ==
  [pc |-> "idle", selectedScenarios |-> <<>>, systemVersion |-> "",
   pos |-> 0, scenarioId |-> 0, projectId |-> 0, link |-> NoLink,
   runId |-> 0]

Init ==
  /\ component \in Components
  /\ userSecrets \in SecretsOf(component)
  /\ session \in Users
  /\ systemVersion \in (IF component = "StartBenchmark"
                        THEN {InitialSystemVersion(v) : v \in ViteSystemVersion}
                        ELSE Versions)
  /\ isRunning = FALSE
  /\ route = "start"
  /\ nclicks = 0
  /\ exec = [b \in 1..MaxEvents |-> Idle]
  /\ trace = <<>>
  /\ notifications = <<>>
  /\ runs = <<>>
  /\ results = <<>>
  /\ aggResults = <<>>
  /\ loadedReviewers = {}
  /\ scoreData = <<>>
  /\ rendered = FALSE

(* --------------------------- page state -------------------------------- *)
\* the selectedScenarios prop: the selected scenario ids, in selection order
Selections ==
  {q \in UNION {[1..n -> ScenarioIds] : n \in 0..NumScenarios} :
     \A i \in DOMAIN q : \A j \in DOMAIN q : i # j => q[i] # q[j]}

\* the render of StartBenchmark: after the useState calls, the dependency
\* array of useCallback names addBenchmarkResult, which is bound nowhere, so
\* the render throws a ReferenceError and nothing is mounted
StartBenchmark_render ==
  /\ component = "StartBenchmark"
  /\ route = "start"
  /\ route' = "error"
  /\ UNCHANGED <<aggVars, component, userSecrets, session, systemVersion,
                 isRunning, nclicks, exec, trace, notifications, runs, results>>

\* <Button disabled={isRunning}>
ButtonDisabled_never == FALSE
ButtonDisabled == isRunning

(* ---------------------- pieces of the handler -------------------------- *)
\* selectedScenarios.length === 0
EmptySelection_never(sel) == Len(sel) < 0
EmptySelection(sel) == Len(sel) = 0

\* !userSecrets || userSecrets.length === 0
NoSecrets(us) == ~us.present \/ Len(us.rows) = 0

\* !gptEngineerTestToken, on a parsed blob
NoToken_unchecked(parsed) == FALSE
NoToken(parsed) ==
  "GPT_ENGINEER_TEST_TOKEN" \notin parsed.keys \/ parsed.token = ""

\* for (const scenarioId of selectedScenarios): the element at position k,
\* and the move to the next one
ScenarioAt_reversed(sel, k) == sel[Len(sel) + 1 - k]
ScenarioAt(sel, k) == sel[k]
NextPosition(k) == k + 1

\* if (!projectResponse.ok) throw
FetchFatal_ignored(res) == FALSE
FetchFatal(res) == res # "ok"

\* the toasts of the catch block
CatchToasts_silent(b, k) == <<>>
CatchToasts(b, k) == <<Toast("error", MsgFailure, b, k)>>

\* the Gateway tables after the catch block (it issues no Gateway call)
CatchRuns_rollback(b) == SelectSeq(runs, LAMBDA r : r.batch # b)
CatchRuns(b) == runs
CatchResults(b) == results

\* the row handed to insert()
RunRow_created(e, b, id) ==
  [id |-> id, scenario_id |-> e.scenarioId, system_version |-> e.systemVersion,
   project_id |-> e.projectId, user_id |-> session, link |-> e.link,
   state |-> "created", batch |-> b, pos |-> e.pos]
RunRow(e, b, id) ==
  [id |-> id, scenario_id |-> e.scenarioId, system_version |-> e.systemVersion,
   project_id |-> e.projectId, user_id |-> session, link |-> e.link,
   state |-> "paused", batch |-> b, pos |-> e.pos]

\* start_paused_run's outcome: error response is fatal
StartFatal_strict(res) == res # "true"
StartFatal(res) == res = "error"
\* if (startedRun) success else warning
StartToast(res, b, k) ==
  IF res = "true" THEN Toast("success", MsgScenario, b, k)
  ELSE Toast("warning", MsgNotStarted, b, k)

\* a throw inside try: catch (and finally) run in the same resumption
Throw(b, e, tr) ==
  /\ exec' = [exec EXCEPT ![b] = [e EXCEPT !.pc = "failed"]]
  /\ trace' = tr
  /\ notifications' = notifications \o CatchToasts(b, e.pos)
  /\ isRunning' = FALSE
  /\ runs' = CatchRuns(b)
  /\ results' = CatchResults(b)
  /\ UNCHANGED route

\* the handler suspends on the call it just issued
Await(b, e, pc, tr, rs, rr) ==
  /\ exec' = [exec EXCEPT ![b] = [e EXCEPT !.pc = pc]]
  /\ trace' = tr
  /\ runs' = rs
  /\ results' = rr
  /\ UNCHANGED <<notifications, isRunning, route>>

\* head of the scenario loop at position k; run is the running flag so far
LoopHead(b, e, k, tr, nt, run, rs, rr) ==
  /\ runs' = rs
  /\ results' = rr
  /\ IF k <= Len(e.selectedScenarios)
     THEN LET e1 == [e EXCEPT !.pc = "awaitImpersonate", !.pos = k,
                                   !.scenarioId =
                                      FindScenario(ScenarioAt(e.selectedScenarios, k)).id,
                                   !.projectId = 0, !.link = NoLink,
                                   !.runId = 0]
          IN
          /\ exec' = [exec EXCEPT ![b] = e1]
          /\ trace' = Append(tr, Call("impersonate", b, e1, 0))
          /\ notifications' = nt
          /\ isRunning' = run
          /\ UNCHANGED route
     ELSE /\ exec' = [exec EXCEPT ![b] = [e EXCEPT !.pc = "succeeded"]]
          /\ trace' = tr
          /\ notifications' = Append(nt, Toast("success", MsgAll, b, 0))
          /\ isRunning' = run
          /\ UNCHANGED route

\* a validation toast and return: nothing else happens
Reject(b, sel, msg) ==
  /\ exec' = [exec EXCEPT ![b] = [Idle EXCEPT !.pc = "rejected",
                                           !.selectedScenarios = sel,
                                           !.systemVersion = systemVersion]]
  /\ notifications' = Append(notifications, Toast("error", msg, b, 0))
  /\ UNCHANGED <<trace, isRunning, route, runs, results>>

\* setIsRunning(true) and the entry into the loop
Begin(b, sel) ==
  LoopHead(b, [Idle EXCEPT !.selectedScenarios = sel, !.systemVersion = systemVersion],
           1, trace, notifications, TRUE, runs, results)

(* ------------------------- the userSecrets prop ------------------------ *)
\* useUserSecrets().data is delivered anew: the pending query resolves, or
\* useAddUserSecret / useUpdateUserSecret / useDeleteUserSecret wrote the
\* table and invalidated the query
useUserSecrets_data(us) ==
  /\ component = "BenchmarkRunner"
  /\ us.present
  /\ us # userSecrets
  /\ 4 * nclicks + Len(trace) < MaxEvents
  /\ userSecrets' = us
  /\ UNCHANGED <<aggVars, component, session, systemVersion, isRunning, route,
                 nclicks, exec, trace, notifications, runs, results>>

(* ------------------------- the click handlers -------------------------- *)
BenchmarkRunner_handleStartBenchmark(sel) ==
  /\ component = "BenchmarkRunner"
  /\ route = "start"
  /\ ~ButtonDisabled
  /\ 4 * nclicks + Len(trace) < MaxEvents
  /\ nclicks' = nclicks + 1
  /\ UNCHANGED <<aggVars, component, userSecrets, session, systemVersion>>
  /\ LET b == nclicks + 1 IN
     IF EmptySelection(sel) THEN Reject(b, sel, MsgSelect)
     ELSE IF NoSecrets(userSecrets) THEN Reject(b, sel, MsgNoSecrets)
     ELSE IF ~JSONparse(userSecrets.rows[1]).valid
     THEN \* JSON.parse throws outside the try block: the promise rejects
          /\ exec' = [exec EXCEPT ![b] = [Idle EXCEPT !.pc = "crashed",
                                                   !.selectedScenarios = sel,
                                                   !.systemVersion = systemVersion]]
          /\ UNCHANGED <<trace, notifications, isRunning, route, runs, results>>
     ELSE IF NoToken(JSONparse(userSecrets.rows[1])) THEN Reject(b, sel, MsgNoToken)
     ELSE Begin(b, sel)

(* --------------------- resumptions of the handler ---------------------- *)
\* project ids are assigned by the target system: a fresh one per project
FreshProjectId ==
  1 + Len(SelectSeq(trace, LAMBDA ev :
            ev.kind = "reply" /\ ev.op = "impersonate" /\ ev.res = "ok"))

\* what impersonateUser resolves to: an object with a projectId, an object
\* without one, or a rejection
ImpersonateOutcomes == {"ok", "noproject", "error"}

\* await impersonateUser(...) settles; projectId 0 stands for undefined
ImpersonateReply(b) ==
  /\ exec[b].pc = "awaitImpersonate"
  /\ Len(trace) < (IF nclicks = 1 THEN MaxTrace ELSE MaxEvents)
  /\ UNCHANGED <<aggVars, component, userSecrets, session, systemVersion, nclicks>>
  /\ \E res \in ImpersonateOutcomes :
       LET e == exec[b]
           pid == IF res = "ok" THEN FreshProjectId ELSE 0
           tr == Append(trace, Reply("impersonate", b, e, res, pid))
           e1 == [e EXCEPT !.projectId = pid]
       IN IF res = "error" THEN Throw(b, e, tr)
          ELSE Await(b, e1, "awaitFetch",
                     Append(tr, Call("fetch", b, e, pid)), runs, results)

\* await fetch(`${systemVersion}/projects/${projectId}`) settles
FetchReply(b) ==
  /\ exec[b].pc = "awaitFetch"
  /\ Len(trace) < (IF nclicks = 1 THEN MaxTrace ELSE MaxEvents)
  /\ UNCHANGED <<aggVars, component, userSecrets, session, systemVersion, nclicks>>
  /\ \E res \in {"ok", "notok"} :
       LET e == exec[b]
           tr == Append(trace, Reply("fetch", b, e, res, e.projectId))
       IN IF FetchFatal(res) THEN Throw(b, e, tr)
          ELSE Await(b, e, "awaitJson",
                     Append(tr, Call("json", b, e, e.projectId)), runs, results)

\* what projectResponse.json() settles to: a body with a link, a body
\* without one, or a rejection
JsonOutcomes == {"ok", "nolink", "error"}

\* projectData.link; NoLink stands for undefined
BodyLink(res, projectId) == IF res = "ok" THEN LinkOf(projectId) ELSE NoLink

\* await projectResponse.json() settles
JsonReply(b) ==
  /\ exec[b].pc = "awaitJson"
  /\ Len(trace) < (IF nclicks = 1 THEN MaxTrace ELSE MaxEvents)
  /\ UNCHANGED <<aggVars, component, userSecrets, session, systemVersion, nclicks>>
  /\ \E res \in JsonOutcomes :
       LET e == exec[b]
           tr == Append(trace, Reply("json", b, e, res, e.projectId))
       IN IF res = "error" THEN Throw(b, e, tr)
          ELSE Await(b, [e EXCEPT !.link = BodyLink(res, e.projectId)], "awaitInsert",
                     Append(tr, Call("insertRun", b, e, 0)), runs, results)

\* the insert into runs settles
InsertRunReply(b) ==
  /\ exec[b].pc = "awaitInsert"
  /\ Len(trace) < (IF nclicks = 1 THEN MaxTrace ELSE MaxEvents)
  /\ UNCHANGED <<aggVars, component, userSecrets, session, systemVersion, nclicks>>
  /\ \E res \in {"ok", "error"} :
       LET e == exec[b]
           id == IF res = "ok" THEN Len(runs) + 1 ELSE 0
           tr == Append(trace, Reply("insertRun", b, e, res, id))
           e1 == [e EXCEPT !.runId = id]
           rs == Append(runs, RunRow(e, b, id))
       IN IF res # "ok" THEN Throw(b, e, tr)
          ELSE Await(b, e1, "awaitStart",
                     Append(tr, Call("rpc", b, e, id)), rs, results)

\* supabase.rpc('start_paused_run', ...) settles
StartReply(b) ==
  /\ exec[b].pc = "awaitStart"
  /\ Len(trace) < (IF nclicks = 1 THEN MaxTrace ELSE MaxEvents)
  /\ UNCHANGED <<aggVars, component, userSecrets, session, systemVersion, nclicks>>
  /\ \E res \in {"true", "false", "error"} :
       LET e == exec[b]
           tr == Append(trace, Reply("rpc", b, e, res, e.runId))
       IN IF StartFatal(res) THEN Throw(b, e, tr)
          ELSE LoopHead(b, e, NextPosition(e.pos), tr,
                        Append(notifications, StartToast(res, b, e.pos)),
                        isRunning, runs, results)

Next ==
  \/ StartBenchmark_render
  \/ \E us \in SecretsValues : useUserSecrets_data(us)
  \/ \E sel \in Selections : BenchmarkRunner_handleStartBenchmark(sel)
  \/ \E b \in 1..MaxEvents : ImpersonateReply(b)
  \/ \E b \in 1..MaxEvents : FetchReply(b)
  \/ \E b \in 1..MaxEvents : JsonReply(b)
  \/ \E b \in 1..MaxEvents : InsertRunReply(b)
  \/ \E b \in 1..MaxEvents : StartReply(b)

Spec == Init /\ [][Next]_vars

(* ===================== RunResult: score aggregation ===================== *)
\* most Result rows of one run
MaxResults == 4

\* JavaScript numbers are IEEE-754 binary64.  A non-negative finite value is
\* m * 2^e with m = hi * 2^26 + lo and 2^52 <= m < 2^53, or m = 0.
RECURSIVE Pow2(_)
Pow2(n) == IF n = 0 THEN 1 ELSE 2 * Pow2(n - 1)

Limb == Pow2(26)

Zero == [hi |-> 0, lo |-> 0, e |-> 0]

IsZero(x) == x.hi = 0 /\ x.lo = 0

\* (hi * 2^26 + lo) * s, for a small s
MulSmall(hi, lo, s) ==
  [hi |-> hi * s + (lo * s) \div Limb, lo |-> (lo * s) % Limb]

\* quotient and remainder of (hi * 2^26 + lo) by a small c
DivSmall(hi, lo, c) ==
  LET t == (hi % c) * Limb + lo
  IN  [hi |-> hi \div c, lo |-> t \div c, r |-> t % c]

\* the significand one unit in the last place up
Increment(hi, lo, e) ==
  IF lo + 1 < Limb THEN [hi |-> hi, lo |-> lo + 1, e |-> e]
  ELSE IF hi + 1 < 2 * Limb THEN [hi |-> hi + 1, lo |-> 0, e |-> e]
  ELSE [hi |-> Limb, lo |-> 0, e |-> e + 1]

\* the least s for which floor((hi * 2^26 + lo) * 2^s / c) has 53 bits
RECURSIVE Scale(_, _, _, _)
Scale(hi, lo, c, s) ==
  LET q == DivSmall(hi, lo, c)
  IN  IF q.hi >= Limb THEN [q |-> q, s |-> s]
      ELSE LET d == MulSmall(hi, lo, 2) IN Scale(d.hi, d.lo, c, s + 1)

\* (hi * 2^26 + lo) * 2^e / c, rounded to nearest, ties to even
Quotient(hi, lo, e, c) ==
  IF hi = 0 /\ lo = 0 THEN Zero
  ELSE LET n == Scale(hi, lo, c, 0)
           q == n.q
       IN  IF 2 * q.r > c \/ (2 * q.r = c /\ q.lo % 2 = 1)
           THEN Increment(q.hi, q.lo, e - n.s)
           ELSE [hi |-> q.hi, lo |-> q.lo, e |-> e - n.s]

\* the scores a Result carries, in tenths: 0.1, 0.2 and 8.0
ScoreTenths == {1, 2, 80}

\* result.result.score: the JSON number k/10 as the nearest double
Score(k) == Quotient(0, k, 0, 10)

\* the scores of the rows, converted once
ScoreOf == [k \in ScoreTenths |-> Score(k)]

\* a significand d bits down, keeping the round bit and the sticky bit
RECURSIVE ShiftRight(_, _)
ShiftRight(m, d) ==
  IF d = 0 THEN m
  ELSE ShiftRight([hi |-> m.hi \div 2,
                   lo |-> (m.hi % 2) * (Limb \div 2) + m.lo \div 2,
                   round |-> m.lo % 2 = 1,
                   sticky |-> m.round \/ m.sticky], d - 1)

RoundNearestEven(m, e) ==
  IF m.round /\ (m.sticky \/ m.lo % 2 = 1)
  THEN Increment(m.hi, m.lo, e)
  ELSE [hi |-> m.hi, lo |-> m.lo, e |-> e]

\* total += score: the exact sum rounded to nearest, ties to even
Add(a, b) ==
  IF IsZero(a) THEN b
  ELSE IF IsZero(b) THEN a
  ELSE LET x  == IF a.e >= b.e THEN a ELSE b
           y  == IF a.e >= b.e THEN b ELSE a
           sh == ShiftRight([hi |-> y.hi, lo |-> y.lo,
                             round |-> FALSE, sticky |-> FALSE], x.e - y.e)
           lo == x.lo + sh.lo
           sm == [hi |-> x.hi + sh.hi + lo \div Limb, lo |-> lo % Limb,
                  round |-> sh.round, sticky |-> sh.sticky]
       IN  IF sm.hi >= 2 * Limb
           THEN RoundNearestEven(ShiftRight(sm, 1), x.e + 1)
           ELSE RoundNearestEven(sm, x.e)

\* total / count
Divide(x, count) == Quotient(x.hi, x.lo, x.e, count)

\* x.toFixed(1) in tenths: the integer n with n/10 nearest to the exact value
\* of x, the larger n on a tie, which is floor((floor(20x) + 1) / 2); for the
\* values below 2^27 that means of scores take
ToFixed1(x) ==
  IF IsZero(x) THEN 0
  ELSE LET t == 0 - x.e - 27
           m == MulSmall(x.hi, x.lo, 10)
       IN  IF t > 30 THEN 0 ELSE (m.hi \div Pow2(t) + 1) \div 2

\* the reviewers table of the RunResult page: id -> dimension
AggReviewers == <<"clarity", "safety">>

AggReviewerIds == 1..Len(AggReviewers)

ResultRows == [reviewer_id : AggReviewerIds, score : ScoreTenths]

RECURSIVE SeqsUpTo(_, _)
SeqsUpTo(S, n) ==
  IF n = 0 THEN {<<>>}
  ELSE LET shorter == SeqsUpTo(S, n - 1)
       IN  shorter \cup {Append(q, x) : q \in {r \in shorter : Len(r) = n - 1}, x \in S}

\* useReviewer(result.reviewer_id).data?.dimension || 'Unknown'
DimensionOf(result, loaded) ==
  IF result.reviewer_id \in loaded /\ AggReviewers[result.reviewer_id] # ""
  THEN AggReviewers[result.reviewer_id]
  ELSE "Unknown"

\* one step of the reduce; acc keeps its keys in insertion order
Accumulate(acc, result, loaded) ==
  LET dimension == DimensionOf(result, loaded)
      created == IF \E i \in 1..Len(acc) : acc[i].dimension = dimension
                 THEN acc
                 ELSE Append(acc, [dimension |-> dimension, total |-> Zero, count |-> 0])
  IN  [i \in 1..Len(created) |->
         IF created[i].dimension = dimension
         THEN [dimension |-> dimension,
               total |-> Add(created[i].total, ScoreOf[result.score]),
               count |-> created[i].count + 1]
         ELSE created[i]]

RECURSIVE Reduce(_, _, _)
Reduce(acc, rows, loaded) ==
  IF rows = <<>> THEN acc
  ELSE Reduce(Accumulate(acc, Head(rows), loaded), Tail(rows), loaded)

averageScores(rows, loaded) == Reduce(<<>>, rows, loaded)

\* Object.entries(averageScores).map(...); averageScore in tenths
ScoreData(rows, loaded) ==
  LET acc == averageScores(rows, loaded)
  IN  [i \in 1..Len(acc) |->
         [dimension |-> acc[i].dimension,
          averageScore |-> ToFixed1(Divide(acc[i].total, acc[i].count))]]

\* the page after run and results have loaded
InitAgg ==
  /\ component = "RunResult"
  /\ userSecrets = [present |-> FALSE, rows |-> <<>>]
  /\ session = CHOOSE u \in Users : TRUE
  /\ systemVersion = ""
  /\ isRunning = FALSE
  /\ route = "start"
  /\ nclicks = 0
  /\ exec = [b \in 1..MaxEvents |-> Idle]
  /\ trace = <<>>
  /\ notifications = <<>>
  /\ runs = <<>>
  /\ results = <<>>
  /\ aggResults \in SeqsUpTo(ResultRows, MaxResults)
  /\ loadedReviewers = {}
  /\ scoreData = <<>>
  /\ rendered = FALSE

\* first render of the page body: no reviewer query has resolved yet
RunResult_render ==
  /\ ~rendered
  /\ rendered' = TRUE
  /\ scoreData' = ScoreData(aggResults, loadedReviewers)
  /\ UNCHANGED <<aggResults, loadedReviewers, orchVars>>

\* a useReviewer query resolves and the page renders again
useReviewer_resolved(r) ==
  /\ rendered
  /\ \E i \in 1..Len(aggResults) : aggResults[i].reviewer_id = r
  /\ r \notin loadedReviewers
  /\ loadedReviewers' = loadedReviewers \cup {r}
  /\ scoreData' = ScoreData(aggResults, loadedReviewers')
  /\ UNCHANGED <<aggResults, rendered, orchVars>>

NextAgg ==
  \/ RunResult_render
  \/ \E r \in AggReviewerIds : useReviewer_resolved(r)

SpecAgg == InitAgg /\ [][NextAgg]_vars

(* ======================= properties of the model ======================= *)
Batches == 1..MaxEvents
InFlight(b) ==
  exec[b].pc \in {"awaitImpersonate", "awaitFetch", "awaitJson", "awaitInsert",
                  "awaitStart"}
Ended(b) == exec[b].pc \in {"succeeded", "failed"}
RunsOfBatch(b) == SelectSeq(runs, LAMBDA r : r.batch = b)
ToastsOfBatch(b) == SelectSeq(notifications, LAMBDA t : t.batch = b)
EventsOfBatch(b) == SelectSeq(trace, LAMBDA ev : ev.batch = b)
IsCall(ev, op) == ev.kind = "call" /\ ev.op = op
IsReply(ev, op) == ev.kind = "reply" /\ ev.op = op
Fatal(ev) == ev.kind = "reply" /\ ev.res \in {"error", "notok"}

\* one Run per selected scenario, created in the order of the selection
RunsInOrder(b) ==
  LET rs == RunsOfBatch(b)
      sel == exec[b].selectedScenarios
  IN /\ Len(rs) = Len(sel)
     /\ \A i \in 1..Len(rs) : rs[i].scenario_id = sel[i]
     /\ \A i \in 1..Len(rs) : \A j \in 1..Len(rs) : i < j => rs[i].id < rs[j].id

ResultsFor(r, v) ==
  {j \in 1..Len(results) : results[j].run_id = r.id /\ results[j].reviewer_id = v.id}

\* exactly one Result per (Run of the batch, Reviewer of its scenario)
OneResultPerReviewer(b) ==
  LET rs == RunsOfBatch(b) IN
  \A i \in 1..Len(rs) :
    LET rev == ReviewersOf(rs[i].scenario_id) IN
    /\ \A j \in 1..Len(rev) : Cardinality(ResultsFor(rs[i], rev[j])) = 1
    /\ \A j \in 1..Len(results) :
         results[j].run_id = rs[i].id =>
           \E x \in 1..Len(rev) : rev[x].id = results[j].reviewer_id

\* C1 as stated: a complete execution with every call succeeding persists
\* exactly one Run per selected scenario, in selection order, and exactly one
\* Result per (Run, Reviewer configured on its scenario).
C1_AsStated ==
  \A b \in Batches :
    exec[b].pc = "succeeded" => RunsInOrder(b) /\ OneResultPerReviewer(b)

\* C2: an invocation with an empty selection emits the validation error and
\* nothing else: no call, no row, the running flag unchanged.
C2_EmptySelectionRejected ==
  [][\A b \in Batches :
       (exec[b].pc = "idle" /\ exec'[b].pc # "idle"
          /\ exec'[b].selectedScenarios = <<>>)
       => /\ notifications' = Append(notifications, Toast("error", MsgSelect, b, 0))
          /\ trace' = trace
          /\ runs' = runs
          /\ results' = results
          /\ isRunning' = isRunning]_vars

C2_Witness ==
  \E b \in Batches :
    /\ exec[b].pc = "rejected"
    /\ exec[b].selectedScenarios = <<>>
    /\ \E i \in 1..Len(notifications) :
         notifications[i] = Toast("error", MsgSelect, b, 0)

\* no secrets row, or a secrets blob without GPT_ENGINEER_TEST_TOKEN
CredentialAbsent ==
  \/ ~userSecrets.present
  \/ userSecrets.rows = <<>>
  \/ /\ JSONparse(userSecrets.rows[1]).valid
     /\ "GPT_ENGINEER_TEST_TOKEN" \notin JSONparse(userSecrets.rows[1]).keys

\* C3: an invocation of handleStartBenchmark made while the credential is
\* absent makes no call, writes no row and does not set the running flag.
C3_NoCredentialNoCall ==
  [][\A b \in Batches :
       (exec[b].pc = "idle" /\ exec'[b].pc # "idle" /\ CredentialAbsent)
       => /\ trace' = trace
          /\ runs' = runs
          /\ results' = results
          /\ isRunning' = isRunning]_vars

C3_Witness ==
  /\ component = "BenchmarkRunner"
  /\ \E b \in Batches : \E c \in Batches :
       /\ exec[b].pc = "rejected" /\ exec[b].selectedScenarios # <<>>
       /\ \E i \in 1..Len(notifications) :
            notifications[i] = Toast("error", MsgNoSecrets, b, 0)
       /\ exec[c].pc = "rejected" /\ exec[c].selectedScenarios # <<>>
       /\ \E i \in 1..Len(notifications) :
            notifications[i] = Toast("error", MsgNoToken, c, 0)

\* C4: after a non-success project fetch at position k of a batch, the batch
\* has halted: no Run insert and no start call at k or later, no impersonation
\* after k.
C4_FetchFailureHalts ==
  \A i \in 1..Len(trace) :
    (IsReply(trace[i], "fetch") /\ trace[i].res = "notok") =>
      LET b == trace[i].batch
          k == trace[i].pos
      IN /\ exec[b].pc = "failed"
         /\ \A j \in 1..Len(trace) :
              trace[j].batch = b =>
                /\ ~(trace[j].op \in {"insertRun", "rpc"} /\ trace[j].pos >= k)
                /\ ~(trace[j].op = "impersonate" /\ trace[j].pos > k)
         /\ \A j \in 1..Len(runs) : ~(runs[j].batch = b /\ runs[j].pos >= k)

C4_Witness ==
  \E i \in 1..Len(trace) :
    /\ IsReply(trace[i], "fetch") /\ trace[i].res = "notok"
    /\ trace[i].pos < Len(exec[trace[i].batch].selectedScenarios)

\* C5: a start_paused_run reply that is falsy gives a warning and the loop goes
\* on, a truthy one gives a success toast and the loop goes on, an error is
\* fatal: nothing of a later scenario happens.
C5_StartOutcome ==
  \A i \in 1..Len(trace) :
    IsReply(trace[i], "rpc") =>
      LET b == trace[i].batch
          k == trace[i].pos
          n == Len(exec[b].selectedScenarios)
      IN IF trace[i].res = "error"
         THEN /\ exec[b].pc = "failed"
              /\ \A j \in 1..Len(trace) : trace[j].batch = b => trace[j].pos <= k
              /\ \A j \in 1..Len(runs) : runs[j].batch = b => runs[j].pos <= k
              /\ \A j \in 1..Len(notifications) :
                   ~(notifications[j].batch = b /\ notifications[j].pos = k
                       /\ notifications[j].level # "error")
         ELSE /\ \E j \in 1..Len(notifications) :
                   notifications[j] =
                     Toast(IF trace[i].res = "true" THEN "success" ELSE "warning",
                           IF trace[i].res = "true" THEN MsgScenario ELSE MsgNotStarted,
                           b, k)
              /\ k < n => \E j \in 1..Len(trace) :
                            /\ j > i
                            /\ IsCall(trace[j], "impersonate")
                            /\ trace[j].batch = b /\ trace[j].pos = k + 1
              /\ k = n => exec[b].pc = "succeeded"

C5_Witness ==
  \E i \in 1..Len(trace) : \E j \in 1..Len(trace) :
    /\ IsReply(trace[i], "rpc") /\ trace[i].res = "false" /\ trace[i].pos = 1
    /\ IsReply(trace[j], "rpc") /\ trace[j].res = "error" /\ trace[j].pos = 2
    /\ trace[i].batch = trace[j].batch

\* the project id the impersonation of (batch b, position k) resolved to
ProjectOf(b, k) ==
  LET i == CHOOSE i \in 1..Len(trace) :
             IsReply(trace[i], "impersonate") /\ trace[i].batch = b
               /\ trace[i].pos = k /\ trace[i].res # "error"
  IN trace[i].id

\* the link of the project body read for (batch b, position k)
LinkResolved(b, k) ==
  LET i == CHOOSE i \in 1..Len(trace) :
             IsReply(trace[i], "json") /\ trace[i].batch = b
               /\ trace[i].pos = k /\ trace[i].res # "error"
  IN IF trace[i].res = "ok" THEN LinkOf(trace[i].id) ELSE NoLink

StartCallsFor(r) == {j \in 1..Len(trace) : IsCall(trace[j], "rpc") /\ trace[j].id = r.id}

\* scenario id, system version, project id and acting user id of a Run row
CarriesInputs(r) ==
  /\ r.scenario_id = exec[r.batch].selectedScenarios[r.pos]
  /\ r.system_version = exec[r.batch].systemVersion
  /\ r.project_id = ProjectOf(r.batch, r.pos)
  /\ r.user_id = session

\* state 'paused', the project link, and start_paused_run invoked exactly once
\* with the Run's id, after the insert succeeded and before the next scenario
PausedThenStarted(r) ==
  /\ r.state = "paused"
  /\ r.link = LinkResolved(r.batch, r.pos)
  /\ Cardinality(StartCallsFor(r)) = 1
  /\ \A j \in StartCallsFor(r) :
       /\ trace[j].batch = r.batch /\ trace[j].pos = r.pos
       /\ \E i \in 1..Len(trace) :
            /\ i < j
            /\ IsReply(trace[i], "insertRun") /\ trace[i].res = "ok"
            /\ trace[i].id = r.id
       /\ \A i \in 1..Len(trace) :
            (trace[i].batch = r.batch /\ trace[i].pos > r.pos) => j < i

\* C6: every inserted Run row is 'paused', carries scenario id, system
\* version, project id, project link and user id, and is started exactly
\* once, after its insert and before the next scenario.
C6_RunRows ==
  \A i \in 1..Len(runs) : CarriesInputs(runs[i]) /\ PausedThenStarted(runs[i])

C6_Witness ==
  /\ component = "BenchmarkRunner"
  /\ \A i \in 1..Len(runs) : runs[i].project_id # 0 /\ runs[i].link # NoLink
  /\ \E i \in 1..Len(runs) : \E j \in 1..Len(runs) :
       /\ runs[i].batch = runs[j].batch
       /\ runs[i].pos = 1 /\ runs[j].pos = 2
       /\ StartCallsFor(runs[j]) # {}

\* position of a scenario in a selection
PosOf(sel, s) == CHOOSE k \in 1..Len(sel) : sel[k] = s

StepRank(op) ==
  CASE op = "impersonate" -> 1
    [] op = "fetch" -> 2
    [] op = "json" -> 3
    [] op = "insertRun" -> 4
    [] op = "rpc" -> 5

\* C7: the events of one batch alternate call / reply of that call (no two
\* calls overlap), scenarios follow the selection order with every step of
\* an earlier scenario before the first step of a later one, and within a
\* scenario the steps follow the fixed order.
C7_Sequential ==
  \A b \in Batches :
    LET P == EventsOfBatch(b)
        sel == exec[b].selectedScenarios
    IN /\ \A i \in 1..Len(P) :
            IF i % 2 = 1 THEN P[i].kind = "call"
            ELSE /\ P[i].kind = "reply"
                 /\ P[i].op = P[i-1].op
                 /\ P[i].scenario = P[i-1].scenario
       /\ \A i \in 1..Len(P) : \A j \in 1..Len(P) :
            (i < j /\ P[i].kind = "call" /\ P[j].kind = "call") =>
              \/ PosOf(sel, P[i].scenario) < PosOf(sel, P[j].scenario)
              \/ /\ P[i].scenario = P[j].scenario
                 /\ StepRank(P[i].op) < StepRank(P[j].op)
       /\ Len(P) > 0 => P[1].op = "impersonate" /\ P[1].scenario = sel[1]

C7_Witness ==
  \E b \in Batches :
    /\ exec[b].pc = "succeeded"
    /\ Len(exec[b].selectedScenarios) >= 2
    /\ Len(EventsOfBatch(b)) = 20

IsTerminal(t) == t.msg \in {MsgAll, MsgFailure}
NoFatal(b) == \A i \in 1..Len(trace) : trace[i].batch = b => ~Fatal(trace[i])
AllProcessed(b) ==
  \A k \in 1..Len(exec[b].selectedScenarios) :
    \E i \in 1..Len(runs) : runs[i].batch = b /\ runs[i].pos = k

\* C8: a batch that passed validation has no terminal notification while in
\* flight and exactly one once ended, the last toast of the batch: the
\* batch-success toast iff every selected scenario was processed without a
\* fatal error, the generic failure toast otherwise.
C8_OneTerminalToast ==
  \A b \in Batches :
    LET T == ToastsOfBatch(b)
        term == SelectSeq(T, IsTerminal)
    IN /\ InFlight(b) => Len(term) = 0
       /\ Ended(b) =>
            /\ Len(term) = 1
            /\ IsTerminal(T[Len(T)])
            /\ term[1].msg = MsgAll <=> (NoFatal(b) /\ AllProcessed(b))
            /\ term[1].msg = MsgFailure => term[1].level = "error"
            /\ term[1].msg = MsgFailure <=> exec[b].pc = "failed"

C8_Witness ==
  \E b \in Batches :
    /\ exec[b].pc = "failed"
    /\ exec[b].pos = 2
    /\ Len(ToastsOfBatch(b)) = 2

\* C9: the step in which a batch fails leaves the runs and results tables as
\* they were and issues no call.
C9_NoRollback ==
  [][\A b \in Batches :
       (exec[b].pc # "failed" /\ exec'[b].pc = "failed") =>
         /\ runs' = runs
         /\ results' = results
         /\ Len(trace') = Len(trace) + 1
         /\ trace'[Len(trace')].kind = "reply"]_vars

C9_Witness ==
  \E b \in Batches :
    /\ exec[b].pc = "failed"
    /\ exec[b].pos = 2
    /\ \E i \in 1..Len(runs) : runs[i].batch = b /\ runs[i].pos = 1
    /\ \E i \in 1..Len(runs) : runs[i].batch = b /\ runs[i].pos = 2

\* C10: at most one execution of handleStartBenchmark is in flight, the
\* running flag is true while one is, and the calls of two batches never
\* interleave.
C10_NoReentrancy ==
  /\ Cardinality({b \in Batches : InFlight(b)}) <= 1
  /\ \A b \in Batches : InFlight(b) => isRunning
  /\ \A i \in 1..Len(trace) : \A j \in 1..Len(trace) :
       i < j => trace[i].batch <= trace[j].batch
  /\ \A i \in 1..Len(runs) : \A j \in 1..Len(runs) :
       i < j => runs[i].batch <= runs[j].batch

C10_Witness ==
  /\ Ended(1)
  /\ InFlight(2)
  /\ Len(EventsOfBatch(1)) > 0

\* the rows of the reviewers table: the reviewers of every scenario
ReviewerRows == UNION {{ReviewersOf(s)[j] : j \in 1..ReviewerCount(s)} : s \in ScenarioIds}

\* C12: every Result row references a Reviewer whose scenario is the scenario
\* of the Run the Result is attached to.  No step of the program inserts a
\* Result, so no state has a row to which this applies.
C12_ReviewerOfRunScenario ==
  \A i \in 1..Len(results) :
    /\ \E j \in 1..Len(runs) : runs[j].id = results[i].run_id
    /\ \E v \in ReviewerRows : v.id = results[i].reviewer_id
    /\ \A j \in 1..Len(runs) : \A v \in ReviewerRows :
         (runs[j].id = results[i].run_id /\ v.id = results[i].reviewer_id)
           => v.scenario_id = runs[j].scenario_id

\* C13: once a batch has ended and none is in flight, the running flag is
\* false again, whether the batch ended by success or by a fatal error.
C13_FlagReset ==
  ((\E b \in Batches : Ended(b)) /\ (\A b \in Batches : ~InFlight(b)))
    => ~isRunning

\* the rows in another order
Orders(n) == {p \in [1..n -> 1..n] : \A i \in 1..n : \A j \in 1..n : i # j => p[i] # p[j]}

Permuted(rows, p) == [i \in 1..Len(rows) |-> rows[p[i]]]

\* the output read as a mapping from dimension to mean
AsMapping(sd) == {<<sd[i].dimension, sd[i].averageScore>> : i \in 1..Len(sd)}

Labels(rows, loaded) == {DimensionOf(rows[i], loaded) : i \in 1..Len(rows)}

RowsOf(rows, loaded, dimension) ==
  {i \in 1..Len(rows) : DimensionOf(rows[i], loaded) = dimension}

RECURSIVE SumTenths(_, _)
SumTenths(rows, I) ==
  IF I = {} THEN 0
  ELSE LET i == CHOOSE x \in I : TRUE IN rows[i].score + SumTenths(rows, I \ {i})

\* n tenths is sum/count rounded to one decimal place (either neighbour on a tie)
IsRoundedMean(n, sum, count) ==
  LET d == n * count - sum IN 2 * d <= count /\ 0 - 2 * d <= count

C11_PermutationInvariant ==
  rendered =>
    \A p \in Orders(Len(aggResults)) :
      AsMapping(ScoreData(Permuted(aggResults, p), loadedReviewers)) = AsMapping(scoreData)

C11_OneEntryPerLabel ==
  rendered =>
    /\ Len(scoreData) = Cardinality(Labels(aggResults, loadedReviewers))
    /\ {scoreData[i].dimension : i \in 1..Len(scoreData)} = Labels(aggResults, loadedReviewers)
    /\ \A i \in 1..Len(scoreData) :
         LET I == RowsOf(aggResults, loadedReviewers, scoreData[i].dimension)
         IN  IsRoundedMean(scoreData[i].averageScore, SumTenths(aggResults, I), Cardinality(I))

\* C11: the aggregation is invariant under any permutation of the Results,
\* and its output has exactly one entry per dimension label of the input, the
\* entry's value being the unweighted sum of that dimension's scores divided
\* by their count, rounded to one decimal place.
C11_AsStated == C11_PermutationInvariant /\ C11_OneEntryPerLabel

====
